---- MODULE Spec2Model ----
(***************************************************************************)
(* Model of src/main.py: the Flask service with the two request handlers   *)
(* get_video_info_api (/api/video_info) and serve_plain_text_transcript    *)
(* (/serve_text_transcript/<filename>), the process environment they       *)
(* share (HTTP_PROXY, HTTPS_PROXY) and the temporary directory             *)
(* TEXT_TRANSCRIPTS_TEMP_DIR in which both credential files and transcript *)
(* result files are created.                                               *)
(*                                                                         *)
(* Every request is a thread of the host framework; a handler is cut into  *)
(* steps at the points where it reads or writes the shared state (the      *)
(* environment, the directory) or calls an external library.               *)
(***************************************************************************)
EXTENDS Integers, FiniteSets, Sequences, TLC

\* ------------------------------------------------------------------ bounds
\* Number of /api/video_info requests and of /serve_text_transcript requests
\* a behaviour holds.
MaxInfoRequests == 2
MaxServeRequests == 2

InfoReqs == 1..MaxInfoRequests
ServeReqs == 1..MaxServeRequests

\* ------------------------------------------------------------ value domains
\* Python's None; for an environment variable: the variable is not set.
None == "None"
\* No path / no track (a Python None where the other values are tuples).
NoPath == <<>>
NoTrack == <<>>

\* `if x:` on a str-or-None value.
Truthy(v) == v # None /\ v # ""

ProxyVars == {"HTTP_PROXY", "HTTPS_PROXY"}
\* Values HTTP_PROXY / HTTPS_PROXY can have when the service starts.
InitialProxyValues == {None, "", "http://orig"}
\* Values of PROXY_URL (read once, at import): not set, or a proxy address.
ProxyUrlValues == {None, "http://proxy"}
\* Values of YOUTUBE_COOKIES_CONTENT.
CookieValues == {None, "cookies"}
\* The video_id query parameter: missing/empty, or an identifier.
VideoIds == {"", "vid"}

\* Caption tracks of a video: <<kind, language>>; "de" stands for the
\* languages the handler never asks for.
Kinds == {"manual", "generated"}
Tracks == (Kinds \X {"ro", "en"}) \cup {<<"manual", "de">>}
preferred_languages == <<"ro", "en">>

\* Files of TEXT_TRANSCRIPTS_TEMP_DIR.  uuid4 and tempfile give every request
\* its own name: the name is indexed by the request that creates the file.
TranscriptName(w) == <<"transcript", w>>
CookieName(w) == <<"tmp", w>>
TranscriptNames == {TranscriptName(w) : w \in InfoReqs}
CookieNames == {CookieName(w) : w \in InfoReqs}
FileNames == TranscriptNames \cup CookieNames
NoFile == "absent"

VARIABLES
    PROXY_URL_FROM_ENV,       \* module constant read at import (line 24)
    YOUTUBE_COOKIES_CONTENT,  \* os.environ['YOUTUBE_COOKIES_CONTENT']
    environ,                  \* os.environ restricted to ProxyVars
    environ0,                 \* os.environ when the service started
    files,                    \* TEXT_TRANSCRIPTS_TEMP_DIR: name -> content
    info,                     \* the /api/video_info requests
    serve                     \* the /serve_text_transcript requests

vars == <<PROXY_URL_FROM_ENV, YOUTUBE_COOKIES_CONTENT, environ, environ0,
          files, info, serve>>

config == <<PROXY_URL_FROM_ENV, YOUTUBE_COOKIES_CONTENT, environ0>>

\* ----------------------------------------------------------------- helpers

\* A safe_delete_file that leaves the file in place.
safe_delete_file_keeps(fs, file_path) == fs

\* safe_delete_file: afterwards the file is absent.  (The except branch is
\* taken when another request removed the file between the existence test
\* and os.remove; the file is absent then as well.)
safe_delete_file(fs, file_path) ==
    IF file_path # NoPath /\ fs[file_path] # NoFile
    THEN [fs EXCEPT ![file_path] = NoFile]
    ELSE fs

\* Except clauses without the one for TranscriptsDisabled: the catch-all
\* clause takes it.
ExceptStatus_no_disabled_clause(exc) ==
    IF exc = "NoTranscriptFound" THEN 404 ELSE 500

\* The except clauses of get_video_info_api.
ExceptStatus(exc) ==
    CASE exc = "TranscriptsDisabled" -> 403
      [] exc = "NoTranscriptFound" -> 404
      [] OTHER -> 500

\* The restoration of one variable in the finally block: set to the saved
\* value when that is a non-empty string, otherwise removed.
RestoredValue(original) ==
    IF Truthy(original) THEN original ELSE None

\* The finally block's effect on the environment.
RestoreEnviron(env, r) ==
    IF Truthy(PROXY_URL_FROM_ENV)
    THEN [v \in ProxyVars |->
            IF v = "HTTP_PROXY"
            THEN RestoredValue(r.original_http_proxy)
            ELSE RestoredValue(r.original_https_proxy)]
    ELSE env

\* The environment after lines 81-89.
OverrideEnviron(env) ==
    IF Truthy(PROXY_URL_FROM_ENV)
    THEN [v \in ProxyVars |-> PROXY_URL_FROM_ENV]
    ELSE [v \in ProxyVars |-> None]

\* TranscriptList.find_transcript([lang]) of youtube_transcript_api: the
\* manually created track of the language when there is one, else the
\* generated track of the language, else NoTranscriptFound (NoTrack).
find_transcript(transcript_list, lang) ==
    IF <<"manual", lang>> \in transcript_list THEN <<"manual", lang>>
    ELSE IF <<"generated", lang>> \in transcript_list THEN <<"generated", lang>>
    ELSE NoTrack

\* TranscriptList.find_generated_transcript([lang]).
find_generated_transcript(transcript_list, lang) ==
    IF <<"generated", lang>> \in transcript_list THEN <<"generated", lang>>
    ELSE NoTrack

\* What transcript_obj.fetch() does: segments, no segments, or an exception.
FetchOutcomes == {"data", "empty", "raise"}

Probe(finder, transcript_list, lang) ==
    IF finder = "find_transcript"
    THEN find_transcript(transcript_list, lang)
    ELSE find_generated_transcript(transcript_list, lang)

\* One `for lang in preferred_languages` loop: the first language whose probe
\* finds a track is fetched and the loop ends; an exception of fetch leaves
\* the loop (and the try block).
RECURSIVE ProbeLoop(_, _, _, _)
ProbeLoop(finder, transcript_list, fetch, i) ==
    IF i > Len(preferred_languages)
    THEN [exc |-> FALSE, track |-> NoTrack, data |-> None]
    ELSE LET t == Probe(finder, transcript_list, preferred_languages[i])
         IN  IF t = NoTrack
             THEN ProbeLoop(finder, transcript_list, fetch, i + 1)
             ELSE IF fetch[t] = "raise"
                  THEN [exc |-> TRUE, track |-> NoTrack, data |-> None]
                  ELSE [exc |-> FALSE, track |-> t, data |-> fetch[t]]

\* `if not transcript_to_fetch_data`
NoData(d) == d = None \/ d = "empty"

\* Lines 129-156: the two loops.
SelectTrack(transcript_list, fetch) ==
    LET first == ProbeLoop("find_transcript", transcript_list, fetch, 1)
    IN  IF first.exc \/ ~NoData(first.data)
        THEN first
        ELSE LET second == ProbeLoop("find_generated_transcript",
                                     transcript_list, fetch, 1)
             IN  IF second.exc \/ second.track # NoTrack
                 THEN second
                 ELSE first

\* A not-found outcome whatever the metadata.
NoTranscriptStatus_always_404(video_title, channel_name) == 404

\* Lines 164-167: the status when no transcript data was obtained.
NoTranscriptStatus(video_title, channel_name) ==
    IF video_title = None /\ channel_name = None THEN 404 ELSE 200

\* ------------------------------------------------------------------- state

\* A request that has not started; also the locals of a request that has
\* returned (they are out of scope then).
IdleInfo ==
    [pc |-> "idle", video_id |-> None,
     entry_environ |-> [v \in ProxyVars |-> None],
     original_http_proxy |-> None, original_https_proxy |-> None,
     video_title |-> None, channel_name |-> None,
     temp_cookie_file_path |-> NoPath, listing |-> None,
     transcript_list |-> {}, fetched |-> NoTrack,
     temp_transcript_text_file_path |-> NoPath,
     transcript_download_url |-> NoPath, status |-> 0]

IdleServe ==
    [pc |-> "idle", filename |-> NoPath, body |-> None, status |-> 0,
     after_close |-> FALSE]

Init ==
    /\ PROXY_URL_FROM_ENV \in ProxyUrlValues
    /\ YOUTUBE_COOKIES_CONTENT \in CookieValues
    /\ environ \in [ProxyVars -> InitialProxyValues]
    /\ environ0 = environ
    /\ files = [n \in FileNames |-> NoFile]
    /\ info = [w \in InfoReqs |-> IdleInfo]
    /\ serve = [s \in ServeReqs |-> IdleServe]

InfoInFlight(w) == info[w].pc \notin {"idle", "returned"}

\* ------------------------------------------------------ get_video_info_api

\* Lines 60-78: the parameter check, then the reads of the two variables.
\* entry_environ records the environment the request found.
Begin(w, vid) ==
    /\ info[w].pc = "idle"
    /\ info' = [info EXCEPT ![w] =
         IF vid = ""
         THEN [@ EXCEPT !.pc = "returned", !.video_id = vid, !.status = 400,
                        !.entry_environ = environ]
         ELSE [@ EXCEPT !.pc = "proxy", !.video_id = vid,
                        !.entry_environ = environ,
                        !.original_http_proxy = environ["HTTP_PROXY"],
                        !.original_https_proxy = environ["HTTPS_PROXY"]]]
    /\ UNCHANGED <<config, environ, files, serve>>

\* Lines 81-89.
SetProxy(w) ==
    /\ info[w].pc = "proxy"
    /\ environ' = OverrideEnviron(environ)
    /\ info' = [info EXCEPT ![w].pc = "pytube"]
    /\ UNCHANGED <<config, files, serve>>

\* Lines 92-114: title, then author; every exception is caught and logged.
\* got: what was fetched before an exception, if any.
MetadataOutcomes == {"none", "title", "both"}
FetchMetadata(w, got) ==
    /\ info[w].pc = "pytube"
    /\ info' = [info EXCEPT ![w] =
         [@ EXCEPT !.pc = "cookie",
                   !.video_title = IF got = "none" THEN None ELSE "title",
                   !.channel_name = IF got = "both" THEN "channel" ELSE None]]
    /\ UNCHANGED <<config, environ, files, serve>>

\* Line 119, get_cookie_file_path (lines 32-43).  NamedTemporaryFile may fail
\* to create the file; write may fail after the file was created (delete=False
\* keeps it); both are caught and None is returned.
CookieOutcomes == {"written", "create_failed", "write_failed"}
get_cookie_file_path(w, outcome) ==
    IF ~Truthy(YOUTUBE_COOKIES_CONTENT)
    THEN [fs |-> files, path |-> NoPath]
    ELSE CASE outcome = "written" ->
                [fs |-> [files EXCEPT ![CookieName(w)] = "cookies"],
                 path |-> CookieName(w)]
           [] outcome = "write_failed" ->
                [fs |-> [files EXCEPT ![CookieName(w)] = "partial"],
                 path |-> NoPath]
           [] OTHER -> [fs |-> files, path |-> NoPath]

CookieFile(w) ==
    /\ info[w].pc = "cookie"
    /\ \E outcome \in CookieOutcomes :
         LET r == get_cookie_file_path(w, outcome)
         IN  /\ files' = r.fs
             /\ info' = [info EXCEPT ![w] =
                  [@ EXCEPT !.pc = "list", !.temp_cookie_file_path = r.path]]
    /\ UNCHANGED <<config, environ, serve>>

\* Line 127: list_transcripts returns the video's tracks (tl) or raises.
ListOutcomes == {"ok", "TranscriptsDisabled", "NoTranscriptFound", "Exception"}
ListTranscripts(w, outcome, tl) ==
    /\ info[w].pc = "list"
    /\ info' = [info EXCEPT ![w] =
         IF outcome = "ok"
         THEN [@ EXCEPT !.pc = "select", !.listing = outcome,
                        !.transcript_list = tl]
         ELSE [@ EXCEPT !.pc = "finally", !.listing = outcome,
                        !.status = ExceptStatus(outcome)]]
    /\ UNCHANGED <<config, environ, files, serve>>

\* Lines 129-167.  fetch: what fetch() does for each track.
SelectTranscript(w, fetch) ==
    /\ info[w].pc = "select"
    /\ LET sel == SelectTrack(info[w].transcript_list, fetch)
       IN  info' = [info EXCEPT ![w] =
             IF sel.exc
             THEN [@ EXCEPT !.pc = "finally",
                            !.status = ExceptStatus("Exception")]
             ELSE IF NoData(sel.data)
             THEN [@ EXCEPT !.pc = "finally", !.fetched = sel.track,
                            !.status = NoTranscriptStatus(
                                           info[w].video_title,
                                           info[w].channel_name)]
             ELSE [@ EXCEPT !.pc = "write", !.fetched = sel.track]]
    /\ UNCHANGED <<config, environ, files, serve>>

\* Lines 169-184: format, name the file, open and write it, build the
\* response.  A failure before open leaves no file; a failure of write leaves
\* the opened file; a failure of url_for/jsonify leaves the written file.
WriteOutcomes == {"ok", "format_failed", "write_failed", "respond_failed"}
WriteTranscript(w) ==
    /\ info[w].pc = "write"
    /\ \E outcome \in WriteOutcomes :
         /\ files' = IF outcome = "format_failed" THEN files
                     ELSE [files EXCEPT ![TranscriptName(w)] =
                             IF outcome = "write_failed" THEN "partial"
                             ELSE "transcript"]
         /\ info' = [info EXCEPT ![w] =
              [@ EXCEPT !.pc = "finally",
                        !.temp_transcript_text_file_path =
                            IF outcome = "format_failed" THEN NoPath
                            ELSE TranscriptName(w),
                        !.transcript_download_url =
                            IF outcome = "ok" THEN TranscriptName(w)
                            ELSE NoPath,
                        !.status = IF outcome = "ok" THEN 200
                                   ELSE ExceptStatus("Exception")]]
    /\ UNCHANGED <<config, environ, serve>>

\* Lines 201-208, then the handler returns: the response (status, download
\* URL) is kept, with the path of the result file the request created; the
\* other locals are gone.
Finally(w) ==
    /\ info[w].pc = "finally"
    /\ files' = safe_delete_file(files, info[w].temp_cookie_file_path)
    /\ environ' = RestoreEnviron(environ, info[w])
    /\ info' = [info EXCEPT ![w] =
         [IdleInfo EXCEPT
            !.pc = "returned",
            !.entry_environ = info[w].entry_environ,
            !.temp_transcript_text_file_path =
                info[w].temp_transcript_text_file_path,
            !.transcript_download_url = info[w].transcript_download_url,
            !.status = info[w].status]]
    /\ UNCHANGED <<config, serve>>

\* --------------------------------------------- serve_plain_text_transcript

\* Names of the files whose content was returned (200) in a response that
\* has been closed.
ServedAndClosed ==
    {serve[s].filename : s \in {x \in ServeReqs :
        serve[x].pc = "returned" /\ serve[x].status = 200}}

\* Lines 213-218: the existence test.  after_close records that the request
\* arrived after a response with the file's content was closed.
ServeBegin(s, filename) ==
    /\ serve[s].pc = "idle"
    /\ serve' = [serve EXCEPT ![s] =
         IF files[filename] = NoFile
         THEN [@ EXCEPT !.pc = "returned", !.filename = filename,
                        !.status = 404,
                        !.after_close = filename \in ServedAndClosed]
         ELSE [@ EXCEPT !.pc = "send", !.filename = filename,
                        !.after_close = filename \in ServedAndClosed]]
    /\ UNCHANGED <<config, environ, files, info>>

\* Lines 220-237: send_from_directory opens the file and the response (200)
\* is returned; when the file is gone it raises, and the handler answers 404
\* (FileNotFoundError) or 500 (any other exception, after safe_delete_file).
Send(s) ==
    /\ serve[s].pc = "send"
    /\ IF files[serve[s].filename] # NoFile
       THEN /\ serve' = [serve EXCEPT ![s] =
                 [@ EXCEPT !.pc = "streaming", !.status = 200,
                           !.body = files[serve[s].filename]]]
            /\ files' = files
       ELSE \E st \in {404, 500} :
              /\ serve' = [serve EXCEPT ![s] =
                   [@ EXCEPT !.pc = "returned", !.status = st]]
              /\ files' = IF st = 500
                          THEN safe_delete_file(files, serve[s].filename)
                          ELSE files
    /\ UNCHANGED <<config, environ, info>>

\* Lines 224-227: the response is closed, the file is deleted.
Close(s) ==
    /\ serve[s].pc = "streaming"
    /\ files' = safe_delete_file(files, serve[s].filename)
    /\ serve' = [serve EXCEPT ![s].pc = "returned"]
    /\ UNCHANGED <<config, environ, info>>

\* ---------------------------------------------------------- specifications

\* The steps of a /api/video_info request after its start, with the results
\* of the external libraries drawn from MD (metadata), TL (track lists) and
\* FE (fetch results).
InfoStep(w, MD, TL, FE) ==
    \/ SetProxy(w)
    \/ \E got \in MD : FetchMetadata(w, got)
    \/ CookieFile(w)
    \/ \E outcome \in ListOutcomes, tl \in TL : ListTranscripts(w, outcome, tl)
    \/ \E fetch \in FE : SelectTranscript(w, fetch)
    \/ WriteTranscript(w)
    \/ Finally(w)

ServeStep(s) ==
    \/ Send(s)
    \/ Close(s)

\* The tracks a probe can find: those of the preferred languages.
PreferredTracks ==
    {t \in Tracks :
        \E i \in 1..Len(preferred_languages) : t[2] = preferred_languages[i]}

AllTrackLists == SUBSET Tracks
AllFetches == [PreferredTracks -> FetchOutcomes]

\* Requests are threads of the server: any interleaving of their steps.
Next ==
    \/ \E w \in InfoReqs, vid \in VideoIds : Begin(w, vid)
    \/ \E w \in InfoReqs : InfoStep(w, MetadataOutcomes, AllTrackLists, AllFetches)
    \/ \E s \in ServeReqs, f \in FileNames : ServeBegin(s, f)
    \/ \E s \in ServeReqs : ServeStep(s)

Spec == Init /\ [][Next]_vars

\* The specifications below are restrictions of Spec: each of their
\* behaviours is a behaviour of Spec.

\* One /api/video_info request with no other request in flight; every
\* result of the external libraries is explored.
SingleRequest == {1}
NextOne ==
    \/ \E w \in SingleRequest, vid \in VideoIds : Begin(w, vid)
    \/ \E w \in SingleRequest :
         InfoStep(w, MetadataOutcomes, AllTrackLists, AllFetches)

SpecOne == Init /\ [][NextOne]_vars

\* Representative library results for the specifications that explore the
\* interleavings of requests: no track / every track, every fetch succeeding
\* / failing, metadata fetched / not fetched.
SomeMetadata == {"none", "both"}
SomeTrackLists == {{}, Tracks}
SomeFetches ==
    {[t \in PreferredTracks |-> "data"], [t \in PreferredTracks |-> "raise"]}

\* Concurrent /api/video_info requests.
NextProxy ==
    \/ \E w \in InfoReqs, vid \in VideoIds : Begin(w, vid)
    \/ \E w \in InfoReqs : InfoStep(w, SomeMetadata, SomeTrackLists, SomeFetches)

SpecProxy == Init /\ [][NextProxy]_vars

\* One /api/video_info request producing files, concurrent with the
\* /serve_text_transcript requests, each of which may name any file the
\* request creates.
Producers == {1}
ProducedNames ==
    {TranscriptName(w) : w \in Producers} \cup {CookieName(w) : w \in Producers}
NextServe ==
    \/ \E w \in Producers, vid \in VideoIds : Begin(w, vid)
    \/ \E w \in Producers : InfoStep(w, SomeMetadata, SomeTrackLists, SomeFetches)
    \/ \E s \in ServeReqs, f \in ProducedNames : ServeBegin(s, f)
    \/ \E s \in ServeReqs : ServeStep(s)

SpecServe == Init /\ [][NextServe]_vars

\* ------------------------------------------------------------------ claims

\* C1 (SpecOne): when a /api/video_info request that ran with no other
\* request in flight has returned, HTTP_PROXY and HTTPS_PROXY have the values
\* they had when the request started, whatever they were and whether or not
\* PROXY_URL is configured.
C1_ProxyRestoredAfterRequest ==
    \A w \in InfoReqs :
        info[w].pc = "returned" => environ = info[w].entry_environ

C3_ManualEnOverGeneratedRo ==
    \A w \in InfoReqs :
        (/\ info[w].pc = "write"
         /\ <<"manual", "en">> \in info[w].transcript_list
         /\ <<"generated", "ro">> \in info[w].transcript_list
         /\ <<"manual", "ro">> \notin info[w].transcript_list)
            => info[w].fetched = <<"manual", "en">>

\* The video has captions but no track, manual or generated, in ro or en.
C4_NoPreferredTrack(w) ==
    /\ info[w].pc = "finally"
    /\ info[w].listing = "ok"
    /\ info[w].transcript_list \cap PreferredTracks = {}

\* C4 as stated (SpecOne): with no track in a preferred language the request
\* answers 404, whether the metadata fetch succeeded or failed.
C4_NoTrackIs404 ==
    \A w \in InfoReqs : C4_NoPreferredTrack(w) => info[w].status = 404

\* C4 as amended (SpecOne): with no track in a preferred language the request
\* answers 404 when the metadata fetch produced neither title nor channel,
\* and 200 when it produced a title or a channel.
C4_NoTrackIs404OrPartial200 ==
    \A w \in InfoReqs :
        C4_NoPreferredTrack(w) =>
            /\ (info[w].video_title = None /\ info[w].channel_name = None)
                  => info[w].status = 404
            /\ (info[w].video_title # None \/ info[w].channel_name # None)
                  => info[w].status = 200

\* A video with a track in another language only, metadata fetched: 200.
C4_Witness ==
    \E w \in InfoReqs :
        /\ C4_NoPreferredTrack(w)
        /\ info[w].transcript_list # {}
        /\ info[w].video_title # None
        /\ info[w].status = 200
        /\ info[w].transcript_download_url = NoPath

\* C5 (SpecOne): a request whose video has captions disabled (list_transcripts
\* raises TranscriptsDisabled) answers 403, whatever the metadata fetch gave
\* and whether or not a cookie value or a proxy address is configured.
C5_DisabledIs403 ==
    \A w \in InfoReqs :
        info[w].listing = "TranscriptsDisabled" => info[w].status = 403

\* Captions disabled, metadata fetch failed, credential file in use, proxy
\* configured: the answer is 403.
C5_Witness ==
    \E w \in InfoReqs :
        /\ info[w].pc = "finally"
        /\ info[w].listing = "TranscriptsDisabled"
        /\ info[w].video_title = None
        /\ info[w].temp_cookie_file_path # NoPath
        /\ Truthy(PROXY_URL_FROM_ENV)
        /\ info[w].status = 403

\* C6 (SpecOne): once the handler has returned, the credential file the
\* request created no longer exists.
C6_CredentialFileGone ==
    \A w \in InfoReqs :
        info[w].pc = "returned" => files[CookieName(w)] = NoFile

\* C7 (SpecOne): after a request that ended with an error status, the result
\* file it created does not exist.
C7_ResultFileGoneOnError ==
    \A w \in InfoReqs :
        (/\ info[w].pc = "returned"
         /\ info[w].status >= 400
         /\ info[w].temp_transcript_text_file_path # NoPath)
            => files[info[w].temp_transcript_text_file_path] = NoFile

\* C8 (SpecProxy): with PROXY_URL configured and the two variables unset or
\* non-empty at the start, once no /api/video_info request is in flight
\* HTTP_PROXY and HTTPS_PROXY have the values they had before the first
\* request.
C8_ProxyRestoredAfterConcurrentRequests ==
    (/\ Truthy(PROXY_URL_FROM_ENV)
     /\ \A v \in ProxyVars : environ0[v] # ""
     /\ \A w \in InfoReqs : ~InfoInFlight(w))
        => environ = environ0

\* C9 (SpecServe): of the GET requests for one file, at most one is answered
\* 200 with the file's content.
C9_AtMostOneDelivery ==
    \A s, t \in ServeReqs :
        (s # t /\ serve[s].status = 200 /\ serve[t].status = 200)
            => serve[s].filename # serve[t].filename

\* C10 (SpecServe): a GET answered 200 returns the content of a transcript
\* result file, never of a credential file, and the credential file of a
\* request in flight is not deleted.
C10_NoCredentialServed ==
    /\ \A s \in ServeReqs :
         serve[s].status = 200 => serve[s].filename \in TranscriptNames
    /\ \A w \in InfoReqs :
         (InfoInFlight(w) /\ info[w].temp_cookie_file_path # NoPath)
            => files[info[w].temp_cookie_file_path] # NoFile

====
